---- MODULE Spec2Model ----
(***************************************************************************)
(* Model of the temperature exporter (cmd/temperature-exporter/main.go):   *)
(* the hwmon / thermal / "sensors -j" discoverers and collector.Collect,   *)
(* the scrape that resets and repopulates the shared GaugeVec.             *)
(*                                                                         *)
(* Strings are sequences of one-character strings, so that HasPrefix,      *)
(* TrimPrefix, TrimSpace and ParseFloat are computed as the code computes  *)
(* them.  Temperatures are integers counting thousandths of a degree.      *)
(***************************************************************************)
EXTENDS Integers, Sequences, FiniteSets, TLC

VARIABLES
    hwmon,            \* the tree under c.basePath (/sys/class/hwmon)
    thermal,          \* the tree under c.thermalPath (/sys/class/thermal)
    cli,              \* what `sensors -j` would answer now
    cfg,              \* enableHwmon / enableThermal / enableSensorsCli
    gauge,            \* c.sensors: the GaugeVec, key -> value
    scrapeTime,       \* c.scrapeTime
    sensorsCliWarned, \* the package-level flag
    pc,               \* per goroutine: position inside Collect
    loc,              \* per goroutine: Collect's local variables
    out,              \* per goroutine: what its last Collect sent on ch
    logs,             \* how many times each log.Printf call site has logged
    nScrapes,         \* Collect calls begun so far
    nReturned,        \* Collect calls that have returned
    hist,             \* per goroutine: bookkeeping about its current scrape
    disc,             \* result of the last stand-alone discovery call
    lineFile,         \* the file a stand-alone readFirstLine call is given
    lineRead          \* what that call returned

vars == <<hwmon, thermal, cli, cfg, gauge, scrapeTime, sensorsCliWarned,
          pc, loc, out, logs, nScrapes, nReturned, hist, disc, lineFile, lineRead>>

----------------------------------------------------------------------------
(* Strings                                                                 *)

Digits == {"0", "1", "2", "3", "4", "5", "6", "7", "8", "9"}

SpaceChars == {" ", "\t", "\r", "\n"}

EmptyStr == << >>

S_temp == <<"t", "e", "m", "p">>

S_input == <<"_", "i", "n", "p", "u", "t">>

S_label == <<"_", "l", "a", "b", "e", "l">>

S_type == <<"_", "t", "y", "p", "e">>

S_name == <<"n", "a", "m", "e">>

S_typeFile == <<"t", "y", "p", "e">>

S_tempFile == <<"t", "e", "m", "p">>

S_thermal == <<"t", "h", "e", "r", "m", "a", "l">>

S_thermal_zone == <<"t", "h", "e", "r", "m", "a", "l", "_", "z", "o", "n", "e">>

\* strings.HasPrefix
HasPrefix(s, p) == Len(s) >= Len(p) /\ SubSeq(s, 1, Len(p)) = p

\* strings.HasSuffix
HasSuffix(s, p) == Len(s) >= Len(p) /\ SubSeq(s, Len(s) - Len(p) + 1, Len(s)) = p

\* strings.TrimPrefix
TrimPrefix(s, p) == IF HasPrefix(s, p) THEN SubSeq(s, Len(p) + 1, Len(s)) ELSE s

\* strings.TrimSuffix
TrimSuffix(s, p) == IF HasSuffix(s, p) THEN SubSeq(s, 1, Len(s) - Len(p)) ELSE s

RECURSIVE TrimLeft(_)
TrimLeft(s) ==
    IF s # << >> /\ Head(s) \in SpaceChars THEN TrimLeft(Tail(s)) ELSE s

RECURSIVE TrimRight(_)
TrimRight(s) ==
    IF s # << >> /\ s[Len(s)] \in SpaceChars
    THEN TrimRight(SubSeq(s, 1, Len(s) - 1))
    ELSE s

\* strings.TrimSpace
TrimSpace(s) == TrimRight(TrimLeft(s))

\* fmt.Sprintf("temp%v_label", idx)
LabelFileName(idx) == S_temp \o idx \o S_label

\* fmt.Sprintf("temp%v_type", idx)
TypeFileName(idx) == S_temp \o idx \o S_type

DigitVal(c) ==
    CASE c = "0" -> 0 [] c = "1" -> 1 [] c = "2" -> 2 [] c = "3" -> 3
      [] c = "4" -> 4 [] c = "5" -> 5 [] c = "6" -> 6 [] c = "7" -> 7
      [] c = "8" -> 8 [] c = "9" -> 9

RECURSIVE DecimalValue(_)
DecimalValue(s) ==
    IF s = << >> THEN 0
    ELSE 10 * DecimalValue(SubSeq(s, 1, Len(s) - 1)) + DigitVal(s[Len(s)])

IsDigits(s) == s # << >> /\ \A i \in 1..Len(s) : s[i] \in Digits

\* strconv.ParseFloat(s, 64) on the contents a sensor file holds here: an
\* optionally signed decimal integer parses, anything else is an error.
ParseFloat(s) ==
    IF IsDigits(s) THEN [err |-> FALSE, v |-> DecimalValue(s)]
    ELSE IF Len(s) > 1 /\ s[1] = "-" /\ IsDigits(Tail(s))
         THEN [err |-> FALSE, v |-> 0 - DecimalValue(Tail(s))]
    ELSE IF Len(s) > 1 /\ s[1] = "+" /\ IsDigits(Tail(s))
         THEN [err |-> FALSE, v |-> DecimalValue(Tail(s))]
    ELSE [err |-> TRUE, v |-> 0]

----------------------------------------------------------------------------
(* Files and directories                                                   *)
(* A file is [st, lines]: st is "ok" or "denied"; lines are its lines.     *)
(* A directory entry is [dname, kind, listable, files]; files is the       *)
(* directory's content in os.ReadDir order, each [fname, file].            *)

MissingFile == [st |-> "missing", lines |-> << >>]

File(ls) == [st |-> "ok", lines |-> ls]

DeniedFile == [st |-> "denied", lines |-> << >>]

\* os.Open(filepath.Join(dir, fname)) resolved against the directory's content
Lookup(files, fname) ==
    IF \E i \in 1..Len(files) : files[i].fname = fname
    THEN files[CHOOSE i \in 1..Len(files) : files[i].fname = fname].file
    ELSE MissingFile

\* as readFirstLine, but lines that are blank are passed over
readFirstLine_SkipsBlankLines(f) ==
    LET full == {i \in 1..Len(f.lines) : TrimSpace(f.lines[i]) # EmptyStr}
    IN  IF f.st # "ok" THEN [err |-> TRUE, why |-> "open", s |-> EmptyStr]
        ELSE IF full # {}
             THEN [err |-> FALSE, why |-> "none",
                   s |-> TrimSpace(f.lines[CHOOSE i \in full : \A j \in full : i <= j])]
        ELSE [err |-> TRUE, why |-> "empty file", s |-> EmptyStr]

\* readFirstLine: the text of the first line, trimmed; an error when the file
\* cannot be opened or holds no line at all
readFirstLine(f) ==
    IF f.st # "ok" THEN [err |-> TRUE, why |-> "open", s |-> EmptyStr]
    ELSE IF Len(f.lines) > 0
         THEN [err |-> FALSE, why |-> "none", s |-> TrimSpace(f.lines[1])]
    ELSE [err |-> TRUE, why |-> "empty file", s |-> EmptyStr]

----------------------------------------------------------------------------
(* discoverSensors: the hwmon discoverer                                   *)

\* the multiplier 0.001 of a hwmon or thermal descriptor, in thousandths
FactorMilli == 1

\* as ChipName, but whatever the name file yields is taken, also nothing
ChipName_NoFallbackOnBlank(e) ==
    LET n == readFirstLine(Lookup(e.files, S_name))
    IN  IF ~n.err THEN n.s ELSE e.dname

\* chipName: the content of the chip's name file when readable and not "",
\* else the directory entry's own name
ChipName(e) ==
    LET n == readFirstLine(Lookup(e.files, S_name))
    IN  IF ~n.err /\ n.s # EmptyStr THEN n.s ELSE e.dname

\* the file-name test of the inner loop
IsTempInput(fname) == HasPrefix(fname, S_temp) /\ HasSuffix(fname, S_input)

\* idx: what stands between "temp" and "_input"
SensorIdx(fname) == TrimSuffix(TrimPrefix(fname, S_temp), S_input)

\* label: temp{idx}_label when readFirstLine returns no error, else
\* temp{idx}_type when readFirstLine returns no error, else ""
ResolveLabel(files, idx) ==
    LET l == readFirstLine(Lookup(files, LabelFileName(idx)))
        t == readFirstLine(Lookup(files, TypeFileName(idx)))
    IN  IF ~l.err THEN l.s
        ELSE IF ~t.err THEN t.s
        ELSE EmptyStr

HwmonReading(e, fname) ==
    [chip   |-> ChipName(e),
     name   |-> ChipName(e),
     label  |-> ResolveLabel(e.files, SensorIdx(fname)),
     path   |-> [root |-> "hwmon", dir |-> e.dname, file |-> fname],
     factor |-> FactorMilli]

\* the inner loop over one chip directory's files, from position i on
RECURSIVE ChipSensors(_, _)
ChipSensors(e, i) ==
    IF i > Len(e.files) THEN << >>
    ELSE IF ~IsTempInput(e.files[i].fname) THEN ChipSensors(e, i + 1)
    ELSE <<HwmonReading(e, e.files[i].fname)>> \o ChipSensors(e, i + 1)

\* as ChipEntrySensors, but a symbolic link to a directory is followed
ChipEntrySensors_FollowsSymlinks(e) ==
    IF e.kind = "file" THEN << >>
    ELSE IF ~e.listable THEN << >>
    ELSE ChipSensors(e, 1)

\* one iteration of the outer loop: what the entry appends to sensors
ChipEntrySensors(e) ==
    IF e.kind # "dir" THEN << >>
    ELSE IF ~e.listable THEN << >>
    ELSE ChipSensors(e, 1)

RECURSIVE HwmonEntries(_, _)

\* as HwmonEntries, but an unlistable chip directory ends the loop
HwmonEntries_UnlistableBreaks(entries, i) ==
    IF i > Len(entries) THEN << >>
    ELSE IF entries[i].kind = "dir" /\ ~entries[i].listable THEN << >>
    ELSE ChipEntrySensors(entries[i]) \o HwmonEntries(entries, i + 1)

HwmonEntries(entries, i) ==
    IF i > Len(entries) THEN << >>
    ELSE ChipEntrySensors(entries[i]) \o HwmonEntries(entries, i + 1)

\* discoverSensors(basePath)
discoverSensors(tree) ==
    IF ~tree.exists THEN [err |-> TRUE, sensors |-> << >>]
    ELSE [err |-> FALSE, sensors |-> HwmonEntries(tree.entries, 1)]

----------------------------------------------------------------------------
(* discoverThermalSensors: the thermal-zone discoverer                     *)

\* ttype, _ := readFirstLine(zoneDir/type)
ZoneType(e) == readFirstLine(Lookup(e.files, S_typeFile)).s

\* as HasTemp, but a zone is taken whether or not it has a temp file
HasTemp_Always(e) == TRUE

\* os.Stat(zoneDir/temp) succeeds
HasTemp(e) == Lookup(e.files, S_tempFile).st # "missing"

ThermalEntrySensors(e) ==
    IF e.kind # "dir" \/ ~HasPrefix(e.dname, S_thermal_zone) THEN << >>
    ELSE IF ~HasTemp(e) THEN << >>
    ELSE <<[chip   |-> S_thermal,
            name   |-> ZoneType(e),
            label  |-> e.dname,
            path   |-> [root |-> "thermal", dir |-> e.dname, file |-> S_tempFile],
            factor |-> FactorMilli]>>

RECURSIVE ThermalEntries(_, _)
ThermalEntries(entries, i) ==
    IF i > Len(entries) THEN << >>
    ELSE ThermalEntrySensors(entries[i]) \o ThermalEntries(entries, i + 1)

\* discoverThermalSensors(thermalBase)
discoverThermalSensors(tree) ==
    IF ~tree.exists THEN [err |-> TRUE, sensors |-> << >>]
    ELSE [err |-> FALSE, sensors |-> ThermalEntries(tree.entries, 1)]

----------------------------------------------------------------------------
(* discoverSensorsCLI: `sensors -j`                                        *)
(* The command's answer is [status, doc]: status "ok" when the command     *)
(* exited 0 in time with decodable JSON, else "exit", "timeout" or         *)
(* "badjson".  A JSON value is [t |-> "num", v], [t |-> "str", s],         *)
(* [t |-> "obj", members] (members a sequence of [k, v]) or                *)
(* [t |-> "null"].  Go ranges over a map in an unspecified order: the      *)
(* discoverer yields a SET of possible result lists.                       *)

\* the permutations of 1..n, as sequences
Perms(n) == {f \in [1..n -> 1..n] : \A i, j \in 1..n : f[i] = f[j] => i = j}

\* as MatchTempInput, but the index may be anything, as in the hwmon test
MatchTempInput_AnyIndex(k) == HasPrefix(k, S_temp) /\ HasSuffix(k, S_input)

\* re.FindStringSubmatch(k) # nil, for re = ^temp(\d+)_input$
MatchTempInput(k) ==
    /\ HasPrefix(k, S_temp)
    /\ HasSuffix(k, S_input)
    /\ Len(k) > Len(S_temp) + Len(S_input)
    /\ IsDigits(SubSeq(k, Len(S_temp) + 1, Len(k) - Len(S_input)))

\* match[1]
MatchIdx(k) == SubSeq(k, Len(S_temp) + 1, Len(k) - Len(S_input))

\* sm[key], ok
MapGet(members, key) ==
    IF \E i \in 1..Len(members) : members[i].k = key
    THEN [ok |-> TRUE,
          v  |-> members[CHOOSE i \in 1..Len(members) : members[i].k = key].v]
    ELSE [ok |-> FALSE, v |-> [t |-> "null"]]

\* label: the sibling temp{idx}_label when it is a string, else ""
CliLabel(members, idx) ==
    LET lv == MapGet(members, LabelFileName(idx))
    IN  IF lv.ok /\ lv.v.t = "str" THEN lv.v.s ELSE EmptyStr

\* the body of the innermost loop for one field: zero or one reading
FieldReadings(chip, section, members, m) ==
    IF ~MatchTempInput(m.k) THEN << >>
    ELSE IF m.v.t # "num" THEN << >>
    ELSE <<[chip  |-> chip,
            name  |-> section,
            label |-> CliLabel(members, MatchIdx(m.k)),
            value |-> m.v.v]>>

\* as FieldsInOrder, but a temp<N>_input that holds no number ends the section
RECURSIVE FieldsInOrder_StopAtNonNumeric(_, _, _, _, _)
FieldsInOrder_StopAtNonNumeric(chip, section, members, ord, i) ==
    IF i > Len(ord) THEN << >>
    ELSE IF MatchTempInput(members[ord[i]].k) /\ members[ord[i]].v.t # "num" THEN << >>
    ELSE FieldReadings(chip, section, members, members[ord[i]])
         \o FieldsInOrder_StopAtNonNumeric(chip, section, members, ord, i + 1)

RECURSIVE FieldsInOrder(_, _, _, _, _)
FieldsInOrder(chip, section, members, ord, i) ==
    IF i > Len(ord) THEN << >>
    ELSE FieldReadings(chip, section, members, members[ord[i]])
         \o FieldsInOrder(chip, section, members, ord, i + 1)

\* one choice from each set of lists, concatenated in position order
RECURSIVE ConcatChoices(_, _)
ConcatChoices(sets, i) ==
    IF i > Len(sets) THEN {<< >>}
    ELSE {a \o b : a \in sets[i], b \in ConcatChoices(sets, i + 1)}

\* for section, sv := range m: what one section can append
SectionResults(chip, sec) ==
    IF sec.v.t # "obj" THEN {<< >>}
    ELSE {FieldsInOrder(chip, sec.k, sec.v.members, ord, 1) :
              ord \in Perms(Len(sec.v.members))}

\* for chip, v := range root: what one chip can append
ChipResults(c) ==
    IF c.v.t # "obj" THEN {<< >>}
    ELSE UNION {ConcatChoices([i \in 1..Len(ord) |->
                                   SectionResults(c.k, c.v.members[ord[i]])], 1) :
                    ord \in Perms(Len(c.v.members))}

\* discoverSensorsCLI(bin, timeout): err, or one of the possible lists
discoverSensorsCLI(answer) ==
    IF answer.status # "ok" \/ answer.doc.t \notin {"obj", "null"}
    THEN [err |-> TRUE, results |-> {<< >>}]
    ELSE IF answer.doc.t = "null" THEN [err |-> FALSE, results |-> {<< >>}]
    ELSE [err |-> FALSE,
          results |-> UNION {ConcatChoices([i \in 1..Len(ord) |->
                                 ChipResults(answer.doc.members[ord[i]])], 1) :
                                 ord \in Perms(Len(answer.doc.members))}]

----------------------------------------------------------------------------
(* The sensor trees and CLI answers the scrapes run against                *)

S_hwmon0 == <<"h", "w", "m", "o", "n", "0">>

S_hwmon1 == <<"h", "w", "m", "o", "n", "1">>

S_hwmon2 == <<"h", "w", "m", "o", "n", "2">>

S_cpu == <<"c", "p", "u">>

S_Tctl == <<"T", "c", "t", "l">>

S_Tdie == <<"T", "d", "i", "e">>

S_acpitz == <<"a", "c", "p", "i", "t", "z">>

S_zone0 == S_thermal_zone \o <<"0">>

S_39625 == <<"3", "9", "6", "2", "5">>

S_41000 == <<"4", "1", "0", "0", "0">>

S_45000 == <<"4", "5", "0", "0", "0">>

S_43000 == <<"4", "3", "0", "0", "0">>

S_abc == <<"a", "b", "c">>

TempN(n, suffix) == S_temp \o <<n>> \o suffix

F(fname, file) == [fname |-> fname, file |-> file]

Dir(dname, files) ==
    [dname |-> dname, kind |-> "dir", listable |-> TRUE, files |-> files]

Tree(entries) == [exists |-> TRUE, entries |-> entries]

NoTree == [exists |-> FALSE, entries |-> << >>]

\* one chip "cpu" with temp1 = 39.625 labelled Tctl
HwOk ==
    Tree(<<Dir(S_hwmon0, <<F(S_name, File(<<S_cpu>>)),
                           F(TempN("1", S_input), File(<<S_39625>>)),
                           F(TempN("1", S_label), File(<<S_Tctl>>))>>)>>)

\* the same chip after temp1 turned non-numeric and an unlabelled temp2 = 41.0 appeared
HwChanged ==
    Tree(<<Dir(S_hwmon0, <<F(S_name, File(<<S_cpu>>)),
                           F(TempN("1", S_input), File(<<S_abc>>)),
                           F(TempN("1", S_label), File(<<S_Tctl>>)),
                           F(TempN("2", S_input), File(<<S_41000>>))>>)>>)

\* an unlistable chip directory beside a chip whose only input is unreadable
HwDenied ==
    Tree(<<[Dir(S_hwmon0, <<F(TempN("1", S_input), File(<<S_39625>>))>>)
               EXCEPT !.listable = FALSE],
           Dir(S_hwmon1, <<F(TempN("1", S_input), DeniedFile)>>)>>)

\* a chip whose temp1 cannot be opened and whose temp2 is a file of no bytes,
\* before its readable temp3 = 41.0
HwMixed ==
    Tree(<<Dir(S_hwmon0, <<F(TempN("1", S_input), DeniedFile),
                           F(TempN("1", S_label), File(<<S_Tctl>>)),
                           F(TempN("2", S_input), File(<< >>)),
                           F(TempN("2", S_label), File(<<S_Tdie>>)),
                           F(TempN("3", S_input), File(<<S_41000>>))>>)>>)

HwTrees == {NoTree, HwOk, HwChanged, HwDenied, HwMixed}

\* one zone of type acpitz at 45.0
ThOk ==
    Tree(<<Dir(S_zone0, <<F(S_tempFile, File(<<S_45000>>)),
                          F(S_typeFile, File(<<S_acpitz>>))>>)>>)

ThTrees == {NoTree, ThOk}

Num(v) == [t |-> "num", v |-> v]

Str(x) == [t |-> "str", s |-> x]

Obj(members) == [t |-> "obj", members |-> members]

M(k, v) == [k |-> k, v |-> v]

\* {"cpu": {"cpu": {"temp1_input": 40.0, "temp1_label": "Tctl"}},
\*  "thermal": {"acpitz": {"temp1_input": 46.0, "temp1_label": "thermal_zone0"}}}
DocBoth ==
    Obj(<<M(S_cpu, Obj(<<M(S_cpu, Obj(<<M(TempN("1", S_input), Num(40000)),
                                         M(TempN("1", S_label), Str(S_Tctl))>>))>>)),
          M(S_thermal, Obj(<<M(S_acpitz, Obj(<<M(TempN("1", S_input), Num(46000)),
                                                M(TempN("1", S_label), Str(S_zone0))>>))>>))>>)

\* {"cpu": {"cpu": {"temp1_input": 40.0, "temp1_label": "Tctl"}}}
DocCpu ==
    Obj(<<M(S_cpu, Obj(<<M(S_cpu, Obj(<<M(TempN("1", S_input), Num(40000)),
                                         M(TempN("1", S_label), Str(S_Tctl))>>))>>))>>)

CliOk == [status |-> "ok", doc |-> DocBoth]

CliCpu == [status |-> "ok", doc |-> DocCpu]

CliFailed(why) == [status |-> why, doc |-> [t |-> "null"]]

\* a chip named "thermal" whose unlabelled temp1 = 39.625 and temp2 = 41.0 share
\* one key, whose temp3 = 43.0 is labelled thermal_zone0, and whose unlabelled
\* temp4 is not a number
HwDup ==
    Tree(<<Dir(S_hwmon0, <<F(S_name, File(<<S_thermal>>)),
                           F(TempN("1", S_input), File(<<S_39625>>)),
                           F(TempN("2", S_input), File(<<S_41000>>)),
                           F(TempN("3", S_input), File(<<S_43000>>)),
                           F(TempN("3", S_label), File(<<S_zone0>>)),
                           F(TempN("4", S_input), File(<<S_abc>>))>>)>>)

\* one zone of type "thermal" at 45.0
ThDup ==
    Tree(<<Dir(S_zone0, <<F(S_tempFile, File(<<S_45000>>)),
                          F(S_typeFile, File(<<S_thermal>>))>>)>>)

\* {"cpu": {"cpu": {"temp1_input": 40.0, "temp2_input": 50.0}}}
DocDup ==
    Obj(<<M(S_cpu, Obj(<<M(S_cpu, Obj(<<M(TempN("1", S_input), Num(40000)),
                                         M(TempN("2", S_input), Num(50000))>>))>>))>>)

CliDup == [status |-> "ok", doc |-> DocDup]

CliAnswers == {CliOk, CliFailed("exit"), CliFailed("timeout"), CliFailed("badjson")}

Config(h, t, c) == [enableHwmon |-> h, enableThermal |-> t, enableSensorsCli |-> c]

Configs == {Config(TRUE, TRUE, TRUE), Config(TRUE, TRUE, FALSE), Config(FALSE, FALSE, FALSE)}

----------------------------------------------------------------------------
(* collector.Collect                                                       *)

\* the goroutines that may be inside Collect (one per request in flight)
Procs == {1, 2}

\* bound: Collect calls begun in one run
MaxScrapes == 2

\* the durations time.Since(start) may yield, in clock ticks
Durations == {0, 1}

EmptyGauge == [k \in {} |-> 0]

\* as Upsert, but a key already present keeps its value
Upsert_KeepExisting(g, k, v) ==
    IF k \in DOMAIN g THEN g ELSE [x \in DOMAIN g \cup {k} |-> IF x = k THEN v ELSE g[x]]

\* as Upsert, but a value set under a key already present is added to it
Upsert_Adds(g, k, v) ==
    [x \in DOMAIN g \cup {k} |-> IF x = k THEN (IF k \in DOMAIN g THEN g[k] + v ELSE v)
                                  ELSE g[x]]

\* c.sensors.WithLabelValues(chip, name, label).Set(v)
Upsert(g, k, v) == [x \in DOMAIN g \cup {k} |-> IF x = k THEN v ELSE g[x]]

\* as Reset, but the children stay
Reset_KeepsChildren(g) == g

\* c.sensors.Reset()
Reset(g) == EmptyGauge

Key(r) == <<r.chip, r.name, r.label>>

\* what a discovery block appends to sensors: nothing when the backend is
\* disabled or its discovery failed
Discovered(enabled, d) == IF enabled /\ ~d.err THEN d.sensors ELSE << >>

\* as AfterDiscovery, but a failed discovery ends the scrape at once
AfterDiscovery_ReturnOnError(herr, terr) == IF herr \/ terr THEN "idle" ELSE "reset"

\* as AfterDiscovery, but a failed discovery skips the reset and the reads
AfterDiscovery_SkipReadsOnError(herr, terr) == IF herr \/ terr THEN "export" ELSE "reset"

\* where Collect goes after the discovery blocks: on to Reset, whatever failed
AfterDiscovery(herr, terr) == "reset"

\* as AfterRead, but with the CLI backend disabled the gauge set is not sent
AfterRead_SkipExport(c) == IF c.enableSensorsCli THEN "cli" ELSE "settime"

\* where Collect goes after the read loop
AfterRead(c) == IF c.enableSensorsCli THEN "cli" ELSE "export"

\* the file a descriptor's path names, in the trees as they are now
FindDir(tree, dname) ==
    IF tree.exists /\ \E i \in 1..Len(tree.entries) : tree.entries[i].dname = dname
    THEN tree.entries[CHOOSE i \in 1..Len(tree.entries) : tree.entries[i].dname = dname].files
    ELSE << >>

PathFile(path) ==
    Lookup(FindDir(IF path.root = "hwmon" THEN hwmon ELSE thermal, path.dir), path.file)

\* as ReadSensor, but the number read is stored as degrees, factor not applied
ReadSensor_Unscaled(s) ==
    LET raw == readFirstLine(PathFile(s.path))
        v   == ParseFloat(TrimSpace(raw.s))
    IN  IF raw.err THEN [skip |-> TRUE, tempC |-> 0]
        ELSE IF v.err THEN [skip |-> TRUE, tempC |-> 0]
        ELSE [skip |-> FALSE, tempC |-> v.v * 1000]

\* the body of the read loop for descriptor s: the value to set, or skip.
\* Gauge values are counted in thousandths of a degree: the whole number v
\* times the factor (in thousandths) is v * factor thousandths.
ReadSensor(s) ==
    LET raw == readFirstLine(PathFile(s.path))
        v   == ParseFloat(TrimSpace(raw.s))
    IN  IF raw.err THEN [skip |-> TRUE, tempC |-> 0]
        ELSE IF v.err THEN [skip |-> TRUE, tempC |-> 0]
        ELSE [skip |-> FALSE, tempC |-> v.v * s.factor]

NoLocals == [sensors |-> << >>, i |-> 1, readings |-> << >>, j |-> 1]

NoOut == [gauge |-> EmptyGauge, sentGauge |-> FALSE, dur |-> 0, sentDur |-> FALSE]

NoHist ==
    [prevKeys |-> {}, prevGauge |-> EmptyGauge, built |-> EmptyGauge, fs |-> EmptyGauge, fromCli |-> EmptyGauge,
     hwErr |-> FALSE, thErr |-> FALSE, cliErr |-> FALSE, preCli |-> EmptyGauge,
     elapsed |-> 0]

\* bookkeeping only: the map a scrape's own successful reads add up to
Put(g, k, v) == [x \in DOMAIN g \cup {k} |-> IF x = k THEN v ELSE g[x]]

InFlight(p) == pc[p] # "idle"

Bump(f, site) == [f EXCEPT ![site] = @ + 1]

\* start := time.Now()
Begin(p) ==
    /\ pc[p] = "idle"
    /\ nScrapes < MaxScrapes
    /\ nScrapes' = nScrapes + 1
    /\ pc' = [pc EXCEPT ![p] = "hwmon"]
    /\ loc' = [loc EXCEPT ![p] = NoLocals]
    /\ out' = [out EXCEPT ![p] = NoOut]
    /\ hist' = [hist EXCEPT ![p] = [NoHist EXCEPT !.prevKeys = DOMAIN gauge,
                                                   !.prevGauge = gauge]]
    /\ UNCHANGED <<hwmon, thermal, cli, cfg, gauge, scrapeTime, sensorsCliWarned,
                   logs, nReturned, disc, lineFile, lineRead>>

\* if c.enableHwmon { discoverSensors ... }
DiscoverHwmonStep(p) ==
    /\ pc[p] = "hwmon"
    /\ LET h == discoverSensors(hwmon)
           failed == cfg.enableHwmon /\ h.err
       IN  /\ loc' = [loc EXCEPT ![p].sensors = @ \o Discovered(cfg.enableHwmon, h)]
           /\ logs' = IF failed THEN Bump(logs, "discoverSensors") ELSE logs
           /\ hist' = [hist EXCEPT ![p].hwErr = failed]
    /\ pc' = [pc EXCEPT ![p] = "thermal"]
    /\ UNCHANGED <<hwmon, thermal, cli, cfg, gauge, scrapeTime, sensorsCliWarned,
                   out, nScrapes, nReturned, disc, lineFile, lineRead>>

\* if c.enableThermal { discoverThermalSensors ... }
DiscoverThermalStep(p) ==
    /\ pc[p] = "thermal"
    /\ LET t == discoverThermalSensors(thermal)
           failed == cfg.enableThermal /\ t.err
       IN  /\ loc' = [loc EXCEPT ![p].sensors = @ \o Discovered(cfg.enableThermal, t)]
           /\ logs' = IF failed THEN Bump(logs, "discoverThermalSensors") ELSE logs
           /\ hist' = [hist EXCEPT ![p].thErr = failed]
           /\ pc' = [pc EXCEPT ![p] = AfterDiscovery(hist[p].hwErr, failed)]
    /\ UNCHANGED <<hwmon, thermal, cli, cfg, gauge, scrapeTime, sensorsCliWarned,
                   out, nScrapes, nReturned, disc, lineFile, lineRead>>

\* c.sensors.Reset()
ResetStep(p) ==
    /\ pc[p] = "reset"
    /\ gauge' = Reset(gauge)
    /\ pc' = [pc EXCEPT ![p] = IF loc[p].sensors = << >> THEN AfterRead(cfg) ELSE "read"]
    /\ UNCHANGED <<hwmon, thermal, cli, cfg, scrapeTime, sensorsCliWarned,
                   loc, out, logs, nScrapes, nReturned, hist, disc, lineFile, lineRead>>

\* as ReadOne, but a descriptor that cannot be read ends the read loop
ReadOne_BreakOnError(p) ==
    /\ pc[p] = "read"
    /\ LET s == loc[p].sensors[loc[p].i]
           r == ReadSensor(s)
       IN  /\ gauge' = IF r.skip THEN gauge ELSE Upsert(gauge, Key(s), r.tempC)
           /\ hist' = IF r.skip THEN hist
                      ELSE [hist EXCEPT ![p].built = Put(@, Key(s), r.tempC),
                                        ![p].fs = Put(@, Key(s), r.tempC)]
           /\ pc' = [pc EXCEPT ![p] = IF loc[p].i = Len(loc[p].sensors) \/ r.skip
                                      THEN AfterRead(cfg) ELSE "read"]
    /\ loc' = [loc EXCEPT ![p].i = @ + 1]
    /\ UNCHANGED <<hwmon, thermal, cli, cfg, scrapeTime, sensorsCliWarned,
                   out, logs, nScrapes, nReturned, disc, lineFile, lineRead>>

\* one iteration of: for _, s := range sensors { ... }
ReadOne(p) ==
    /\ pc[p] = "read"
    /\ LET s == loc[p].sensors[loc[p].i]
           r == ReadSensor(s)
       IN  /\ gauge' = IF r.skip THEN gauge ELSE Upsert(gauge, Key(s), r.tempC)
           /\ hist' = IF r.skip THEN hist
                      ELSE [hist EXCEPT ![p].built = Put(@, Key(s), r.tempC),
                                        ![p].fs = Put(@, Key(s), r.tempC)]
    /\ loc' = [loc EXCEPT ![p].i = @ + 1]
    /\ pc' = [pc EXCEPT ![p] = IF loc[p].i = Len(loc[p].sensors)
                               THEN AfterRead(cfg) ELSE "read"]
    /\ UNCHANGED <<hwmon, thermal, cli, cfg, scrapeTime, sensorsCliWarned,
                   out, logs, nScrapes, nReturned, disc, lineFile, lineRead>>

\* readings, err := discoverSensorsCLI(c.sensorsCliPath, c.sensorsTimeout)
RunCli(p) ==
    /\ pc[p] = "cli"
    /\ LET d == discoverSensorsCLI(cli)
       IN  \E rs \in d.results :
             /\ loc' = [loc EXCEPT ![p].readings = rs]
             /\ pc' = [pc EXCEPT ![p] = IF d.err THEN "warncheck"
                                        ELSE IF rs = << >> THEN "export"
                                        ELSE "cliset"]
             /\ hist' = [hist EXCEPT ![p].cliErr = d.err, ![p].preCli = gauge]
    /\ UNCHANGED <<hwmon, thermal, cli, cfg, gauge, scrapeTime, sensorsCliWarned,
                   out, logs, nScrapes, nReturned, disc, lineFile, lineRead>>

\* one iteration of: for _, r := range readings { ... }
CliSet(p) ==
    /\ pc[p] = "cliset"
    /\ LET r == loc[p].readings[loc[p].j]
       IN  /\ gauge' = Upsert(gauge, Key(r), r.value)
           /\ hist' = [hist EXCEPT ![p].built = Put(@, Key(r), r.value),
                                   ![p].fromCli = Put(@, Key(r), r.value)]
    /\ loc' = [loc EXCEPT ![p].j = @ + 1]
    /\ pc' = [pc EXCEPT ![p] = IF loc[p].j = Len(loc[p].readings)
                               THEN "export" ELSE "cliset"]
    /\ UNCHANGED <<hwmon, thermal, cli, cfg, scrapeTime, sensorsCliWarned,
                   out, logs, nScrapes, nReturned, disc, lineFile, lineRead>>

\* if !sensorsCliWarned {   -- a plain read of the package-level flag: no lock
\* is held between this read and the store in Warn
WarnCheck(p) ==
    /\ pc[p] = "warncheck"
    /\ pc' = [pc EXCEPT ![p] = IF ~sensorsCliWarned THEN "warn" ELSE "export"]
    /\ UNCHANGED <<hwmon, thermal, cli, cfg, gauge, scrapeTime, sensorsCliWarned,
                   loc, out, logs, nScrapes, nReturned, hist, disc, lineFile, lineRead>>

\* log.Printf("discoverSensorsCLI error: ..."); sensorsCliWarned = true
Warn(p) ==
    /\ pc[p] = "warn"
    /\ logs' = Bump(logs, "discoverSensorsCLI")
    /\ sensorsCliWarned' = TRUE
    /\ pc' = [pc EXCEPT ![p] = "export"]
    /\ UNCHANGED <<hwmon, thermal, cli, cfg, gauge, scrapeTime, loc, out,
                   nScrapes, nReturned, hist, disc, lineFile, lineRead>>

\* c.sensors.Collect(ch)
Export(p) ==
    /\ pc[p] = "export"
    /\ out' = [out EXCEPT ![p].gauge = gauge, ![p].sentGauge = TRUE]
    /\ pc' = [pc EXCEPT ![p] = "settime"]
    /\ UNCHANGED <<hwmon, thermal, cli, cfg, gauge, scrapeTime, sensorsCliWarned,
                   loc, logs, nScrapes, nReturned, hist, disc, lineFile, lineRead>>

\* as SetTime, but the duration is set only when the scrape found a sensor
SetTime_OnlyWithSensors(p) ==
    /\ pc[p] = "settime"
    /\ \E d \in Durations :
          /\ scrapeTime' = IF gauge = EmptyGauge THEN scrapeTime ELSE d
          /\ hist' = [hist EXCEPT ![p].elapsed = d]
    /\ pc' = [pc EXCEPT ![p] = "sendtime"]
    /\ UNCHANGED <<hwmon, thermal, cli, cfg, gauge, sensorsCliWarned,
                   loc, out, logs, nScrapes, nReturned, disc, lineFile, lineRead>>

\* c.scrapeTime.Set(time.Since(start).Seconds()): the clock is monotonic, so
\* the time since start is some non-negative number of ticks
SetTime(p) ==
    /\ pc[p] = "settime"
    /\ \E d \in Durations :
          /\ scrapeTime' = d
          /\ hist' = [hist EXCEPT ![p].elapsed = d]
    /\ pc' = [pc EXCEPT ![p] = "sendtime"]
    /\ UNCHANGED <<hwmon, thermal, cli, cfg, gauge, sensorsCliWarned,
                   loc, out, logs, nScrapes, nReturned, disc, lineFile, lineRead>>

\* c.scrapeTime.Collect(ch)
SendTime(p) ==
    /\ pc[p] = "sendtime"
    /\ out' = [out EXCEPT ![p].dur = scrapeTime, ![p].sentDur = TRUE]
    /\ pc' = [pc EXCEPT ![p] = "return"]
    /\ UNCHANGED <<hwmon, thermal, cli, cfg, gauge, scrapeTime, sensorsCliWarned,
                   loc, logs, nScrapes, nReturned, hist, disc, lineFile, lineRead>>

\* Collect returns: its locals are gone and the registry has drained ch
Return(p) ==
    /\ pc[p] = "return"
    /\ pc' = [pc EXCEPT ![p] = "idle"]
    /\ loc' = [loc EXCEPT ![p] = NoLocals]
    /\ out' = [out EXCEPT ![p] = NoOut]
    /\ hist' = [hist EXCEPT ![p] = NoHist]
    /\ nReturned' = nReturned + 1
    /\ UNCHANGED <<hwmon, thermal, cli, cfg, gauge, scrapeTime, sensorsCliWarned,
                   logs, nScrapes, disc, lineFile, lineRead>>

\* the steps of a Collect call after its first
Step(p) ==
    \/ DiscoverHwmonStep(p)
    \/ DiscoverThermalStep(p)
    \/ ResetStep(p)
    \/ ReadOne(p)
    \/ RunCli(p)
    \/ CliSet(p)
    \/ WarnCheck(p)
    \/ Warn(p)
    \/ Export(p)
    \/ SetTime(p)
    \/ SendTime(p)
    \/ Return(p)

\* between scrapes the sensor trees change (hotplug, permissions)
TreesChange ==
    /\ \A p \in Procs : ~InFlight(p)
    /\ hwmon' \in HwTrees
    /\ thermal' \in ThTrees
    /\ <<hwmon', thermal'>> # <<hwmon, thermal>>
    /\ UNCHANGED <<cli, cfg, gauge, scrapeTime, sensorsCliWarned,
                   pc, loc, out, logs, nScrapes, nReturned, hist, disc, lineFile, lineRead>>

\* directory dname of the tree without its file fname
RemoveFile(tree, dname, fname) ==
    [tree EXCEPT !.entries =
        [e \in 1..Len(tree.entries) |->
            IF tree.entries[e].dname = dname
            THEN [tree.entries[e] EXCEPT
                     !.files = SelectSeq(@, LAMBDA f : f.fname # fname)]
            ELSE tree.entries[e]]]

\* between discovery and the read loop of a scrape, the file of the first
\* descriptor found goes away (a device is unplugged)
InputVanishes ==
    \E p \in Procs :
        /\ pc[p] = "reset"
        /\ loc[p].sensors # << >>
        /\ hwmon \in HwTrees /\ thermal \in ThTrees
        /\ LET s == loc[p].sensors[1]
           IN  IF s.path.root = "hwmon"
               THEN /\ hwmon' = RemoveFile(hwmon, s.path.dir, s.path.file)
                    /\ thermal' = thermal
               ELSE /\ thermal' = RemoveFile(thermal, s.path.dir, s.path.file)
                    /\ hwmon' = hwmon
        /\ UNCHANGED <<cli, cfg, gauge, scrapeTime, sensorsCliWarned,
                       pc, loc, out, logs, nScrapes, nReturned, hist, disc, lineFile, lineRead>>

\* the sensors command starts or stops working
CliChange ==
    /\ cli' \in CliAnswers \ {cli}
    /\ UNCHANGED <<hwmon, thermal, cfg, gauge, scrapeTime, sensorsCliWarned,
                   pc, loc, out, logs, nScrapes, nReturned, hist, disc, lineFile, lineRead>>

NoLogs ==
    [site \in {"discoverSensors", "discoverThermalSensors", "discoverSensorsCLI"} |-> 0]

NoDisc == [ran |-> FALSE, by |-> "none", err |-> FALSE, sensors |-> << >>]

NoLineRead == [done |-> FALSE, err |-> FALSE, why |-> "none", s |-> EmptyStr]

\* the state newCollector leaves, before any request
InitCollector ==
    /\ gauge = EmptyGauge
    /\ scrapeTime = 0
    /\ sensorsCliWarned = FALSE
    /\ pc = [p \in Procs |-> "idle"]
    /\ loc = [p \in Procs |-> NoLocals]
    /\ out = [p \in Procs |-> NoOut]
    /\ logs = NoLogs
    /\ nScrapes = 0
    /\ nReturned = 0
    /\ hist = [p \in Procs |-> NoHist]
    /\ disc = NoDisc
    /\ lineRead = NoLineRead

\* overlapping requests: Collect runs in as many goroutines as there are
\* requests in flight, with nothing between them but the GaugeVec's own lock
Init ==
    /\ hwmon = HwOk
    /\ thermal = ThOk
    /\ cli \in {CliCpu, CliFailed("exit")}
    /\ cfg = Config(TRUE, TRUE, TRUE)
    /\ lineFile = MissingFile
    /\ InitCollector

CliFlips ==
    /\ cli' \in {CliCpu, CliFailed("exit")} \ {cli}
    /\ UNCHANGED <<hwmon, thermal, cfg, gauge, scrapeTime, sensorsCliWarned,
                   pc, loc, out, logs, nScrapes, nReturned, hist, disc, lineFile, lineRead>>

Next ==
    \/ \E p \in Procs : Begin(p)
    \/ \E p \in Procs : Step(p)
    \/ CliFlips

Spec == Init /\ [][Next]_vars

\* one request at a time: a scrape runs alone from start to end
InitSerial ==
    /\ hwmon \in HwTrees
    /\ thermal \in ThTrees
    /\ cli \in CliAnswers
    /\ cfg \in Configs
    /\ lineFile = MissingFile
    /\ InitCollector

BeginAlone(p) == (\A q \in Procs : ~InFlight(q)) /\ Begin(p)

CliChangeIdle == (\A q \in Procs : ~InFlight(q)) /\ CliChange

NextSerial ==
    \/ \E p \in Procs : BeginAlone(p)
    \/ \E p \in Procs : Step(p)
    \/ TreesChange
    \/ CliChangeIdle
    \/ InputVanishes

SpecSerial == InitSerial /\ [][NextSerial]_vars

\* one request at a time over sensor trees and a CLI answer that never change
InitRepeat ==
    /\ hwmon \in {HwOk, HwDup}
    /\ thermal \in {NoTree, ThOk, ThDup}
    /\ cli \in {CliCpu, CliDup, CliFailed("exit")}
    /\ cfg \in Configs
    /\ lineFile = MissingFile
    /\ InitCollector

NextRepeat ==
    \/ \E p \in Procs : BeginAlone(p)
    \/ \E p \in Procs : Step(p)

SpecRepeat == InitRepeat /\ [][NextRepeat]_vars

----------------------------------------------------------------------------
(* The discoverers on their own, over many trees                           *)

S_fan1_input == <<"f", "a", "n", "1">> \o S_input

S_temp1_max == <<"t", "e", "m", "p", "1", "_", "m", "a", "x">>

S_tempX_input == TempN("X", S_input)

S_temp_input == S_temp \o S_input

S_temperature_input == <<"t", "e", "m", "p", "e", "r", "a", "t", "u", "r", "e">> \o S_input

S_blank == <<" ">>

\* the files a name may stand for: absent is MissingFile
NameFiles ==
    {MissingFile, DeniedFile, File(<< >>), File(<<S_cpu>>), File(<<S_blank>>),
     File(<<EmptyStr, S_cpu>>)}

LabelFiles ==
    {MissingFile, DeniedFile, File(<< >>), File(<<S_Tctl>>), File(<<EmptyStr>>),
     File(<<S_blank>>), File(<<EmptyStr, S_Tctl>>)}

TypeFiles == {MissingFile, File(<<S_Tdie>>), File(<<EmptyStr>>)}

\* names whose presence in the chip directory varies, each a file holding 39625
VaryingNames ==
    {S_fan1_input, TempN("1", S_input), S_temp1_max, S_tempX_input, S_temp_input,
     S_temperature_input}

Present(fname, file) == IF file.st = "missing" THEN << >> ELSE <<F(fname, file)>>

In(fname, chosen) == IF fname \in chosen THEN <<F(fname, File(<<S_39625>>))>> ELSE << >>

\* a chip directory's content in os.ReadDir order (sorted by file name)
ChipFiles(nameFile, labelFile, typeFile, chosen) ==
    In(S_fan1_input, chosen)
    \o Present(S_name, nameFile)
    \o In(TempN("1", S_input), chosen)
    \o Present(TempN("1", S_label), labelFile)
    \o In(S_temp1_max, chosen)
    \o Present(TempN("1", S_type), typeFile)
    \o In(S_tempX_input, chosen)
    \o In(S_temp_input, chosen)
    \o In(S_temperature_input, chosen)

OneChipTrees ==
    {Tree(<<Dir(S_hwmon0, ChipFiles(n, l, t, chosen))>>) :
        n \in NameFiles, l \in LabelFiles, t \in TypeFiles, chosen \in SUBSET VaryingNames}

\* what one entry of a base directory with several entries may be
Entry(dname, shape) ==
    LET d == Dir(dname, <<F(TempN("1", S_input), File(<<S_39625>>)),
                          F(TempN("2", S_input), File(<<S_41000>>))>>)
    IN  CASE shape = "chip"       -> d
          [] shape = "unlistable" -> [d EXCEPT !.listable = FALSE]
          [] shape = "file"       -> [d EXCEPT !.kind = "file", !.files = << >>]
          [] shape = "symlink"    -> [d EXCEPT !.kind = "symlink"]
          [] shape = "bare"       -> [d EXCEPT !.files = << >>]

Shapes == {"chip", "unlistable", "file", "symlink", "bare"}

ThreeChipTrees ==
    {Tree(<<Entry(S_hwmon0, a), Entry(S_hwmon1, b), Entry(S_hwmon2, c)>>) :
        a \in Shapes, b \in Shapes, c \in Shapes}

DiscTrees == OneChipTrees \cup ThreeChipTrees \cup {NoTree}

InitDiscover ==
    /\ hwmon \in DiscTrees
    /\ thermal = NoTree
    /\ cli = CliFailed("exit")
    /\ cfg = Config(TRUE, TRUE, TRUE)
    /\ lineFile = MissingFile
    /\ InitCollector

\* sensors, err := discoverSensors(basePath)
RunDiscoverSensors ==
    /\ ~disc.ran
    /\ disc' = [ran |-> TRUE, by |-> "discoverSensors",
                err |-> discoverSensors(hwmon).err,
                sensors |-> discoverSensors(hwmon).sensors]
    /\ UNCHANGED <<hwmon, thermal, cli, cfg, gauge, scrapeTime, sensorsCliWarned,
                   pc, loc, out, logs, nScrapes, nReturned, hist,
                   lineFile, lineRead>>

NextDiscover == RunDiscoverSensors

SpecDiscover == InitDiscover /\ [][NextDiscover]_vars

----------------------------------------------------------------------------
(* The thermal-zone discoverer on its own, over many trees                 *)

S_cooling_device0 ==
    <<"c", "o", "o", "l", "i", "n", "g", "_", "d", "e", "v", "i", "c", "e", "0">>

S_zone1 == S_thermal_zone \o <<"1">>

ZoneTypeFiles ==
    {MissingFile, DeniedFile, File(<< >>), File(<<S_acpitz>>), File(<<S_blank>>)}

ZoneTempFiles == {MissingFile, DeniedFile, File(<<S_45000>>), File(<<S_abc>>)}

\* a zone directory's content in os.ReadDir order
ZoneFiles(tempFile, typeFile) == Present(S_tempFile, tempFile) \o Present(S_typeFile, typeFile)

\* what an entry named dname of the thermal base path may be: a directory with
\* any content, a symbolic link to a full zone directory, or a regular file
ZoneEntries(dname) ==
    {Dir(dname, ZoneFiles(t, ty)) : t \in ZoneTempFiles, ty \in ZoneTypeFiles}
    \cup {[Dir(dname, ZoneFiles(File(<<S_45000>>), File(<<S_acpitz>>)))
              EXCEPT !.kind = "symlink"],
          [Dir(dname, << >>) EXCEPT !.kind = "file"]}

\* a directory that is no zone, holding a temp file
CoolingDevice == Dir(S_cooling_device0, ZoneFiles(File(<<S_45000>>), File(<<S_acpitz>>)))

ThermalDiscTrees ==
    {Tree(<<a, b>>) : a \in ZoneEntries(S_zone0), b \in ZoneEntries(S_zone1)}
    \cup {Tree(<<CoolingDevice, a>>) : a \in ZoneEntries(S_zone0)}
    \cup {Tree(<< >>), NoTree}

InitThermal ==
    /\ hwmon = NoTree
    /\ thermal \in ThermalDiscTrees
    /\ cli = CliFailed("exit")
    /\ cfg = Config(TRUE, TRUE, TRUE)
    /\ lineFile = MissingFile
    /\ InitCollector

\* sensors, err := discoverThermalSensors(thermalBase)
RunDiscoverThermal ==
    /\ ~disc.ran
    /\ disc' = [ran |-> TRUE, by |-> "discoverThermalSensors",
                err |-> discoverThermalSensors(thermal).err,
                sensors |-> discoverThermalSensors(thermal).sensors]
    /\ UNCHANGED <<hwmon, thermal, cli, cfg, gauge, scrapeTime, sensorsCliWarned,
                   pc, loc, out, logs, nScrapes, nReturned, hist,
                   lineFile, lineRead>>

NextThermal == RunDiscoverThermal

SpecThermal == InitThermal /\ [][NextThermal]_vars

----------------------------------------------------------------------------
(* Both file discoverers over base paths whose entries are of every type   *)

\* what an entry named dname of the thermal base path may be: a zone
\* directory with or without temp, a symbolic link to a zone directory, a file
ZoneShapes(dname) ==
    {Dir(dname, ZoneFiles(File(<<S_45000>>), File(<<S_acpitz>>))),
     Dir(dname, ZoneFiles(MissingFile, File(<<S_acpitz>>))),
     [Dir(dname, ZoneFiles(File(<<S_45000>>), File(<<S_acpitz>>)))
         EXCEPT !.kind = "symlink"],
     [Dir(dname, << >>) EXCEPT !.kind = "file"]}

InitEntries ==
    /\ hwmon \in ThreeChipTrees
    /\ thermal \in {Tree(<<a, b>>) : a \in ZoneShapes(S_zone0), b \in ZoneShapes(S_zone1)}
    /\ cli = CliFailed("exit")
    /\ cfg = Config(TRUE, TRUE, TRUE)
    /\ lineFile = MissingFile
    /\ InitCollector

NextEntries ==
    \/ RunDiscoverSensors
    \/ RunDiscoverThermal

SpecEntries == InitEntries /\ [][NextEntries]_vars

----------------------------------------------------------------------------
(* The CLI discoverer on its own, over many documents                      *)

S_Core0 == <<"C", "o", "r", "e", " ", "0">>

S_Adapter == <<"A", "d", "a", "p", "t", "e", "r">>

S_ISA == <<"I", "S", "A">>

S_chip == <<"c", "h", "i", "p">>

Null == [t |-> "null"]

\* a field named k, present unless v is Absent
Absent == [t |-> "absent"]

Field(k, v) == IF v = Absent THEN << >> ELSE <<M(k, v)>>

\* the values temp1_input may have: none, a number, a string, null
Input1Values == {Absent, Num(40000), Str(S_abc), Null}

\* the values temp1_label may have: none, a string, a number
Label1Values == {Absent, Str(S_Tctl), Num(7000)}

\* what else a section may hold
OtherFields ==
    {<< >>,
     <<M(TempN("2", S_input), Num(39000)), M(TempN("2", S_label), Str(S_Core0))>>,
     <<M(S_temp_input, Num(41000))>>,
     <<M(S_tempX_input, Num(42000))>>,
     <<M(S_temp1_max, Num(80000))>>}

SectionBodies ==
    {Field(TempN("1", S_input), i) \o Field(TempN("1", S_label), l) \o o :
        i \in Input1Values, l \in Label1Values, o \in OtherFields}

\* {"chip": {"Core 0": {"temp2_input": 39.0, "temp2_label": "Core 0"}}}
DocCore0 ==
    Obj(<<M(S_chip, Obj(<<M(S_Core0, Obj(<<M(TempN("2", S_input), Num(39000)),
                                           M(TempN("2", S_label), Str(S_Core0))>>))>>))>>)

\* a chip or a section that is no mapping beside well-formed ones
\* ({"Adapter": "ISA", ...} at either level)
DocsWithNonMappings ==
    {Obj(<<M(S_Adapter, x), M(S_chip, Obj(<<M(S_Adapter, y), M(S_Core0, Obj(b))>>))>>) :
        x \in {Str(S_ISA), Num(1000), Null}, y \in {Str(S_ISA), Num(1000)},
        b \in {<<M(TempN("1", S_input), Num(40000))>>,
               <<M(TempN("1", S_input), Str(S_abc)), M(TempN("2", S_input), Num(39000))>>}}

CliDocs ==
    {Obj(<<M(S_chip, Obj(<<M(S_Core0, Obj(b))>>))>>) : b \in SectionBodies}
    \cup DocsWithNonMappings
    \cup {DocCore0, DocBoth, DocDup, Obj(<< >>), Null, Str(S_abc), Num(1000)}

CliOutcomes ==
    {[status |-> "ok", doc |-> d] : d \in CliDocs}
    \cup {CliFailed("exit"), CliFailed("timeout"), CliFailed("badjson")}

InitCli ==
    /\ hwmon = NoTree
    /\ thermal = NoTree
    /\ cli \in CliOutcomes
    /\ cfg = Config(TRUE, TRUE, TRUE)
    /\ lineFile = MissingFile
    /\ InitCollector

\* readings, err := discoverSensorsCLI(bin, timeout)
RunDiscoverCli ==
    /\ ~disc.ran
    /\ LET d == discoverSensorsCLI(cli)
       IN  \E rs \in d.results :
              disc' = [ran |-> TRUE, by |-> "discoverSensorsCLI",
                       err |-> d.err, sensors |-> rs]
    /\ UNCHANGED <<hwmon, thermal, cli, cfg, gauge, scrapeTime, sensorsCliWarned,
                   pc, loc, out, logs, nScrapes, nReturned, hist,
                   lineFile, lineRead>>

NextCli == RunDiscoverCli

SpecCli == InitCli /\ [][NextCli]_vars

----------------------------------------------------------------------------
(* readFirstLine on its own, over many files                               *)

\* " 41000 ": a number between blanks
S_padded == <<" ">> \o S_41000 \o <<" ", "\t">>

\* the lines a file may hold
SomeLines == {EmptyStr, S_blank, S_39625, S_padded, S_abc}

\* missing, unreadable, and every file of up to three such lines
LineFiles ==
    {MissingFile, DeniedFile, File(<< >>)}
    \cup {File(<<a>>) : a \in SomeLines}
    \cup {File(<<a, b>>) : a \in SomeLines, b \in SomeLines}
    \cup {File(<<a, b, c>>) : a \in SomeLines, b \in SomeLines, c \in SomeLines}

InitLine ==
    /\ hwmon = NoTree
    /\ thermal = NoTree
    /\ cli = CliFailed("exit")
    /\ cfg = Config(TRUE, TRUE, TRUE)
    /\ lineFile \in LineFiles
    /\ InitCollector

\* s, err := readFirstLine(path)
RunReadFirstLine ==
    /\ ~lineRead.done
    /\ LET r == readFirstLine(lineFile)
       IN  lineRead' = [done |-> TRUE, err |-> r.err, why |-> r.why, s |-> r.s]
    /\ UNCHANGED <<hwmon, thermal, cli, cfg, gauge, scrapeTime, sensorsCliWarned,
                   pc, loc, out, logs, nScrapes, nReturned, hist, disc, lineFile>>

NextLine == RunReadFirstLine

SpecLine == InitLine /\ [][NextLine]_vars

----------------------------------------------------------------------------
(* Claims about the hwmon discoverer (SpecDiscover)                        *)

\* the positions of the descriptors discovery emitted for file fname of directory dname
EmittedFor(dname, fname) ==
    {i \in 1..Len(disc.sensors) :
        disc.sensors[i].path.dir = dname /\ disc.sensors[i].path.file = fname}

\* the descriptors discovery emitted for directory dname, in order
EmittedIn(sensors, dname) == SelectSeq(sensors, LAMBDA d : d.path.dir = dname)

\* temp<N>_input with <N> a non-empty sequence of digits
DigitIndexed(fname) ==
    /\ Len(fname) > 10
    /\ SubSeq(fname, 1, 4) = S_temp
    /\ SubSeq(fname, Len(fname) - 5, Len(fname)) = S_input
    /\ \A i \in 5..(Len(fname) - 6) : fname[i] \in Digits

\* a pseudo-file's content when it is readable and non-empty
Content(f) ==
    IF f.st = "ok" /\ f.lines # << >> /\ TrimSpace(f.lines[1]) # EmptyStr
    THEN [some |-> TRUE, s |-> TrimSpace(f.lines[1])]
    ELSE [some |-> FALSE, s |-> EmptyStr]

\* label file, else type file, else "", each only when readable and non-empty
PrecedenceLabel(files, n) ==
    LET l == Content(Lookup(files, S_temp \o n \o S_label))
        t == Content(Lookup(files, S_temp \o n \o S_type))
    IN  IF l.some THEN l.s ELSE IF t.some THEN t.s ELSE EmptyStr

\* C8: every hwmon descriptor with index N carries the content of temp<N>_label
\* if that file is readable and non-empty, else the content of temp<N>_type if
\* readable and non-empty, else the empty string; a readable but blank label
\* file does not prevent the fallback to the type file.
C8_LabelPrecedence ==
    disc.ran =>
        \A i \in 1..Len(disc.sensors) :
            LET d == disc.sensors[i]
            IN  DigitIndexed(d.path.file) =>
                    d.label = PrecedenceLabel(FindDir(hwmon, d.path.dir),
                                              SubSeq(d.path.file, 5, Len(d.path.file) - 6))

\* C9: a file of a listed chip directory yields one descriptor if its name is
\* temp<N>_input with <N> a non-empty digit sequence, and none otherwise
\* (temp_input, tempX_input, temperature_input yield none).
C9_DigitIndexedOnly ==
    disc.ran =>
        \A e \in 1..Len(hwmon.entries) :
            LET d == hwmon.entries[e]
            IN  (d.kind = "dir" /\ d.listable) =>
                    \A j \in 1..Len(d.files) :
                        Cardinality(EmittedFor(d.dname, d.files[j].fname))
                            = IF DigitIndexed(d.files[j].fname) THEN 1 ELSE 0

\* C10: a chip directory that cannot be listed contributes no descriptor, every
\* sibling entry contributes exactly what it contributes when it is the only
\* entry of the base path, and the call returns without error.
C10_UnlistableChipSkipped ==
    (disc.ran /\ hwmon.exists) =>
        /\ ~disc.err
        /\ \A e \in 1..Len(hwmon.entries) :
              LET d == hwmon.entries[e]
              IN  EmittedIn(disc.sensors, d.dname)
                    = IF d.kind = "dir" /\ ~d.listable THEN << >>
                      ELSE discoverSensors(Tree(<<d>>)).sensors
        /\ \A i \in 1..Len(disc.sensors) :
              \E e \in 1..Len(hwmon.entries) :
                  hwmon.entries[e].dname = disc.sensors[i].path.dir

\* an unlistable chip between two chips that were both discovered in full
C10_Witness ==
    /\ disc.ran
    /\ Len(hwmon.entries) = 3
    /\ hwmon.entries[2].kind = "dir" /\ ~hwmon.entries[2].listable
    /\ Len(EmittedIn(disc.sensors, S_hwmon0)) = 2
    /\ Len(EmittedIn(disc.sensors, S_hwmon1)) = 0
    /\ Len(EmittedIn(disc.sensors, S_hwmon2)) = 2

----------------------------------------------------------------------------
(* Claims about collector.Collect                                          *)

\* the scrape of p has done its last upsert and has not returned yet
Merged(p) == pc[p] \in {"export", "settime", "sendtime", "return"}

\* the scrape of p is between its Reset and its c.sensors.Collect(ch)
Building(p) == pc[p] \in {"read", "cli", "cliset", "warncheck", "warn", "export"}

\* the value a sensor file yields when it can be read and is a number
Numeric(f) ==
    IF f.st = "ok" /\ f.lines # << >> /\ IsDigits(TrimSpace(f.lines[1]))
    THEN [some |-> TRUE, v |-> DecimalValue(TrimSpace(f.lines[1]))]
    ELSE [some |-> FALSE, v |-> 0]

FirstLineOf(f) ==
    IF f.st = "ok" /\ f.lines # << >> THEN TrimSpace(f.lines[1]) ELSE EmptyStr

\* the temp*_input files of listed chip directories that hold a number now
ReadableInputs ==
    IF ~cfg.enableHwmon \/ ~hwmon.exists THEN {}
    ELSE UNION {{<<e, j>> : j \in {j \in 1..Len(hwmon.entries[e].files) :
                                      /\ IsTempInput(hwmon.entries[e].files[j].fname)
                                      /\ Numeric(hwmon.entries[e].files[j].file).some}} :
                   e \in {e \in 1..Len(hwmon.entries) :
                             /\ hwmon.entries[e].kind = "dir"
                             /\ hwmon.entries[e].listable}}

InputKey(x) ==
    <<ChipName(hwmon.entries[x[1]]), ChipName(hwmon.entries[x[1]]),
      ResolveLabel(hwmon.entries[x[1]].files,
                   SensorIdx(hwmon.entries[x[1]].files[x[2]].fname))>>

HwmonKeysNow == {InputKey(x) : x \in ReadableInputs}

\* the zones of the thermal tree that have a temp file holding a number now
ReadableZones ==
    IF ~cfg.enableThermal \/ ~thermal.exists THEN {}
    ELSE {e \in 1..Len(thermal.entries) :
             /\ thermal.entries[e].kind = "dir"
             /\ HasPrefix(thermal.entries[e].dname, S_thermal_zone)
             /\ Numeric(Lookup(thermal.entries[e].files, S_tempFile)).some}

ZoneKey(e) ==
    <<S_thermal, FirstLineOf(Lookup(thermal.entries[e].files, S_typeFile)),
      thermal.entries[e].dname>>

ThermalKeysNow == {ZoneKey(e) : e \in ReadableZones}

Members(o) == {o.members[i] : i \in 1..Len(o.members)}

\* the keys of the CLI answer now: (chip, section, content of temp1_label), for
\* the documents used here, whose sections each hold temp1_input and temp1_label
CliKeysNow ==
    IF ~cfg.enableSensorsCli \/ cli.status # "ok" THEN {}
    ELSE UNION {{<<c.k, sec.k, MapGet(sec.v.members, TempN("1", S_label)).v.s>> :
                    sec \in Members(c.v)} : c \in Members(cli.doc)}

\* C1: when a scrape that ran alone has merged its readings, the gauge set holds
\* exactly the keys read successfully during this scrape (those the trees and
\* the CLI answer yield), and no key left over from an earlier scrape.
C1_ExactKeysAfterScrape ==
    \A p \in Procs :
        Merged(p) =>
            /\ DOMAIN gauge = DOMAIN hist[p].built
            /\ DOMAIN gauge = HwmonKeysNow \cup ThermalKeysNow \cup CliKeysNow

\* a scrape has merged, and a key the gauge set held before it is gone
C1_Witness ==
    \E p \in Procs :
        /\ pc[p] = "export"
        /\ DOMAIN gauge # {}
        /\ hist[p].prevKeys \ DOMAIN gauge # {}

\* C2: no two invocations are between their clear and their export at once.
C2_MutualExclusion ==
    \A p, q \in Procs : (p # q) => ~(Building(p) /\ Building(q))

\* C3: what a scrape hands to the exposition adapter holds every key this
\* scrape read successfully.
C3_EmitsCompleteSet ==
    \A p \in Procs :
        out[p].sentGauge => DOMAIN hist[p].built \subseteq DOMAIN out[p].gauge

\* C4: a scrape in flight can always take its next step, a scrape that returns
\* has handed over a gauge set and a duration, and every scrape begun has
\* returned or is in flight: no failure ends it early.
C4_ScrapeAlwaysCompletes ==
    /\ \A p \in Procs :
          /\ pc[p] \in {"idle", "hwmon", "thermal", "reset", "read", "cli", "cliset",
                        "warncheck", "warn", "export", "settime", "sendtime", "return"}
          /\ pc[p] = "read" => loc[p].i <= Len(loc[p].sensors)
          /\ pc[p] = "cliset" => loc[p].j <= Len(loc[p].readings)
    /\ \A p \in Procs : pc[p] = "return" => (out[p].sentGauge /\ out[p].sentDur)
    /\ nScrapes = nReturned + Cardinality({p \in Procs : InFlight(p)})

\* a scrape in which all three backends failed is about to return
C4_Witness ==
    \E p \in Procs :
        /\ pc[p] = "return"
        /\ hist[p].hwErr /\ hist[p].thErr /\ hist[p].cliErr
        /\ out[p].sentGauge /\ out[p].sentDur

\* C5: with the hwmon base path missing, the merged gauge set still holds a
\* value for every readable thermal zone and for every CLI reading; and when the
\* CLI call fails it contributes no reading and leaves the gauge set as the
\* hwmon and thermal reads left it.
C5_FailureIsolation ==
    \A p \in Procs :
        Merged(p) =>
            /\ hist[p].hwErr =>
                  /\ ThermalKeysNow \cup CliKeysNow \subseteq DOMAIN gauge
                  /\ \A e \in ReadableZones :
                        ZoneKey(e) \notin CliKeysNow =>
                            gauge[ZoneKey(e)]
                                = Numeric(Lookup(thermal.entries[e].files, S_tempFile)).v
            /\ hist[p].cliErr =>
                  /\ loc[p].readings = << >>
                  /\ hist[p].fromCli = EmptyGauge
                  /\ gauge = hist[p].preCli
                  /\ gauge = hist[p].fs

\* hwmon missing and the CLI call failed, and the thermal reading is there
C5_Witness ==
    \E p \in Procs :
        /\ pc[p] = "export"
        /\ hist[p].hwErr /\ hist[p].cliErr
        /\ ReadableZones # {}
        /\ DOMAIN gauge = ThermalKeysNow

\* C6: the CLI failure warning is never logged more than once.
C6_WarnedAtMostOnce == logs["discoverSensorsCLI"] <= 1

\* C7: a key read both from hwmon or thermal and from the CLI in one scrape
\* holds the CLI value once the scrape has merged.
C7_CliValueWins ==
    \A p \in Procs :
        Merged(p) =>
            \A k \in DOMAIN hist[p].fs \cap DOMAIN hist[p].fromCli :
                gauge[k] = hist[p].fromCli[k]

\* the hwmon key and the thermal key were both read with one value and
\* upserted by the CLI with another
C7_Witness ==
    \E p \in Procs :
        /\ pc[p] = "export"
        /\ \E k \in DOMAIN hist[p].fs \cap DOMAIN hist[p].fromCli :
              k[1] = S_cpu /\ hist[p].fs[k] = 39625 /\ gauge[k] = 40000
        /\ \E k \in DOMAIN hist[p].fs \cap DOMAIN hist[p].fromCli :
              k[1] = S_thermal /\ hist[p].fs[k] = 45000 /\ gauge[k] = 46000

----------------------------------------------------------------------------
(* Claims about repeated scrapes over an unchanging environment (SpecRepeat) *)

\* C11: a scrape that follows another over the same sensor trees and the same
\* CLI output leaves the gauge set as the earlier scrape left it: the same keys,
\* each with the same value.
C11_ConsecutiveScrapesAgree ==
    \A p \in Procs :
        (Merged(p) /\ nReturned >= 1) => gauge = hist[p].prevGauge

----------------------------------------------------------------------------
(* Claims about the thermal-zone discoverer (SpecThermal)                  *)

\* the name starts with thermal_zone
ZoneNamed(dname) == Len(dname) >= 12 /\ SubSeq(dname, 1, 12) = S_thermal_zone

\* C12: thermal-zone discovery emits exactly one descriptor for each directory
\* of the base path whose name starts with thermal_zone and that holds a temp
\* file, none for a zone without temp and none for anything else; the
\* descriptor has chip "thermal", as name the content of the zone's type file
\* (empty when it cannot be read), as label the directory name, and the factor
\* 0.001 (one thousandth).
C12_ThermalDescriptors ==
    (disc.ran /\ thermal.exists) =>
        /\ ~disc.err
        /\ \A e \in 1..Len(thermal.entries) :
              LET z == thermal.entries[e]
                  hasTemp == \E j \in 1..Len(z.files) : z.files[j].fname = S_tempFile
              IN  Len(EmittedIn(disc.sensors, z.dname))
                     = IF z.kind = "dir" /\ ZoneNamed(z.dname) /\ hasTemp THEN 1 ELSE 0
        /\ \A i \in 1..Len(disc.sensors) :
              LET d == disc.sensors[i]
              IN  /\ \E e \in 1..Len(thermal.entries) :
                        thermal.entries[e].dname = d.path.dir
                  /\ d.chip = S_thermal
                  /\ d.name = FirstLineOf(Lookup(FindDir(thermal, d.path.dir), S_typeFile))
                  /\ d.label = d.path.dir
                  /\ d.path.file = S_tempFile
                  /\ d.factor = 1

\* of two zones, the one with a temp file and an unreadable type file was
\* emitted with an empty name, the one without temp was not
C12_Witness ==
    /\ disc.ran
    /\ Len(thermal.entries) = 2
    /\ Lookup(thermal.entries[1].files, S_typeFile).st = "denied"
    /\ Lookup(thermal.entries[2].files, S_tempFile).st = "missing"
    /\ thermal.entries[2].kind = "dir"
    /\ Len(disc.sensors) = 1
    /\ disc.sensors[1].label = S_zone0
    /\ disc.sensors[1].name = EmptyStr

----------------------------------------------------------------------------
(* Claims about the CLI discoverer (SpecCli)                               *)

\* the positions <<chip, section, field>> of the document's fields that sit in
\* a section of a chip, both mappings
FieldsOf(doc) ==
    UNION {UNION {{<<c, x, f>> : f \in 1..Len(doc.members[c].v.members[x].v.members)} :
                      x \in {x \in 1..Len(doc.members[c].v.members) :
                                doc.members[c].v.members[x].v.t = "obj"}} :
               c \in {c \in 1..Len(doc.members) : doc.members[c].v.t = "obj"}}

SectionAt(doc, t) == doc.members[t[1]].v.members[t[2]]

FieldAt(doc, t) == SectionAt(doc, t).v.members[t[3]]

\* the field is named temp<N>_input, N digits, and holds a number
WellFormed(doc, t) == DigitIndexed(FieldAt(doc, t).k) /\ FieldAt(doc, t).v.t = "num"

\* the string the section holds under temp<N>_label, N as in field t; else ""
SiblingLabel(doc, t) ==
    LET k   == FieldAt(doc, t).k
        lk  == S_temp \o SubSeq(k, 5, Len(k) - 6) \o S_label
        fs  == SectionAt(doc, t).v.members
        hit == {j \in 1..Len(fs) : fs[j].k = lk /\ fs[j].v.t = "str"}
    IN  IF hit = {} THEN EmptyStr ELSE fs[CHOOSE j \in hit : TRUE].v.s

\* the reading the field at t stands for
ReadingOf(doc, t) ==
    [chip  |-> doc.members[t[1]].k,
     name  |-> SectionAt(doc, t).k,
     label |-> SiblingLabel(doc, t),
     value |-> FieldAt(doc, t).v.v]

\* C13: for a decodable document the CLI discoverer returns, in some order,
\* exactly one reading per field named temp<N>_input (N digits) with a numeric
\* value, carrying the chip key, the section key, the sibling temp<N>_label when
\* that is a string (else ""), and the number as decoded; the document
\* {chip: {"Core 0": {temp2_input: 39.0, temp2_label: "Core 0"}}} gives the one
\* reading (chip, "Core 0", "Core 0") = 39.0.
C13_OneReadingPerField ==
    (disc.ran /\ cli.status = "ok" /\ cli.doc.t = "obj") =>
        LET wf == {t \in FieldsOf(cli.doc) : WellFormed(cli.doc, t)}
        IN  /\ ~disc.err
            /\ Len(disc.sensors) = Cardinality(wf)
            /\ \A t \in wf :
                  Cardinality({i \in 1..Len(disc.sensors) :
                                  disc.sensors[i] = ReadingOf(cli.doc, t)})
                    = Cardinality({u \in wf : ReadingOf(cli.doc, u) = ReadingOf(cli.doc, t)})
            /\ cli.doc = DocCore0 =>
                  disc.sensors = <<[chip |-> S_chip, name |-> S_Core0,
                                    label |-> S_Core0, value |-> 39000]>>

\* a section with a labelled numeric temp1_input, a labelled temp2_input and
\* nothing else gave two readings
C13_Witness ==
    /\ disc.ran /\ ~disc.err
    /\ Len(disc.sensors) = 2
    /\ \E i, j \in 1..2 :
          /\ disc.sensors[i].label = S_Tctl /\ disc.sensors[i].value = 40000
          /\ disc.sensors[j].label = S_Core0 /\ disc.sensors[j].value = 39000
          /\ disc.sensors[i].name = S_Core0 /\ disc.sensors[i].chip = S_chip

\* the document has an element the parse has to step over
Malformed(doc) ==
    \/ \E c \in 1..Len(doc.members) :
          \/ doc.members[c].v.t # "obj"
          \/ \E x \in 1..Len(doc.members[c].v.members) :
                doc.members[c].v.members[x].v.t # "obj"
    \/ \E t \in FieldsOf(doc) :
          \/ DigitIndexed(FieldAt(doc, t).k) /\ FieldAt(doc, t).v.t # "num"
          \/ /\ FieldAt(doc, t).k = TempN("1", S_label)
             /\ FieldAt(doc, t).v.t # "str"

\* C14: the call fails exactly when the command failed or its output is no
\* JSON mapping; otherwise every well-formed temp<N>_input field of the document
\* has its reading in the result whatever malformed elements stand beside it
\* (a non-numeric temp<N>_input, a chip or section that is no mapping), a
\* temp<N>_label that is no string leaves the label empty, and nothing but the
\* well-formed fields gives a reading.
C14_MalformedElementsSkipped ==
    disc.ran =>
        /\ disc.err <=> (cli.status # "ok" \/ cli.doc.t \notin {"obj", "null"})
        /\ disc.err => disc.sensors = << >>
        /\ (~disc.err /\ cli.doc.t = "obj") =>
              /\ \A t \in FieldsOf(cli.doc) :
                    WellFormed(cli.doc, t) =>
                        \E i \in 1..Len(disc.sensors) :
                            /\ disc.sensors[i] = ReadingOf(cli.doc, t)
                            /\ (\E u \in FieldsOf(cli.doc) :
                                   /\ u[1] = t[1] /\ u[2] = t[2]
                                   /\ FieldAt(cli.doc, u).k = TempN("1", S_label)
                                   /\ FieldAt(cli.doc, u).v.t # "str"
                                   /\ FieldAt(cli.doc, t).k = TempN("1", S_input))
                                => disc.sensors[i].label = EmptyStr
              /\ \A i \in 1..Len(disc.sensors) :
                    \E t \in FieldsOf(cli.doc) :
                        WellFormed(cli.doc, t) /\ disc.sensors[i] = ReadingOf(cli.doc, t)

\* beside a chip and a section that are no mappings, a section whose temp1_input
\* is a string still gave the reading of its temp2_input
C14_Witness ==
    /\ disc.ran /\ ~disc.err
    /\ cli.doc \in DocsWithNonMappings
    /\ \E t \in FieldsOf(cli.doc) :
          FieldAt(cli.doc, t).k = TempN("1", S_input) /\ FieldAt(cli.doc, t).v.t = "str"
    /\ Malformed(cli.doc)
    /\ disc.sensors = <<[chip |-> S_chip, name |-> S_Core0,
                          label |-> EmptyStr, value |-> 39000]>>

----------------------------------------------------------------------------
(* Claims about the values and the step order of a scrape                  *)
(* (C15, C16, C18 under SpecSerial; C17 under SpecRepeat)                  *)

\* the readings the CLI answer stands for now
CliReadingsNow ==
    IF ~cfg.enableSensorsCli \/ cli.status # "ok" \/ cli.doc.t # "obj" THEN {}
    ELSE {ReadingOf(cli.doc, t) : t \in {u \in FieldsOf(cli.doc) : WellFormed(cli.doc, u)}}

\* C15: once a scrape has merged, a key read from a hwmon or thermal file that
\* holds the integer r has the value r thousandths of a degree (r x 0.001; the
\* file holding 39625 gives 39.625), unless the CLI gave the same key; a key the
\* CLI gave has the number of the document as it is.
C15_ScaledByThousandth ==
    \A p \in Procs :
        Merged(p) =>
            /\ \A x \in ReadableInputs :
                  (/\ InputKey(x) \notin {<<r.chip, r.name, r.label>> : r \in CliReadingsNow}
                   /\ InputKey(x) \notin ThermalKeysNow
                   /\ \A y \in ReadableInputs : InputKey(y) = InputKey(x) => y = x)
                  => gauge[InputKey(x)]
                        = Numeric(hwmon.entries[x[1]].files[x[2]].file).v
            /\ \A e \in ReadableZones :
                  (/\ ZoneKey(e) \notin {<<r.chip, r.name, r.label>> : r \in CliReadingsNow}
                   /\ \A f \in ReadableZones : ZoneKey(f) = ZoneKey(e) => f = e)
                  => gauge[ZoneKey(e)]
                        = Numeric(Lookup(thermal.entries[e].files, S_tempFile)).v
            /\ \A r \in CliReadingsNow :
                  (\A q \in CliReadingsNow :
                      <<q.chip, q.name, q.label>> = <<r.chip, r.name, r.label>> => q = r)
                  => gauge[<<r.chip, r.name, r.label>>] = r.value
            /\ (hwmon = HwOk /\ cfg.enableHwmon /\ CliReadingsNow = {})
                  => gauge[<<S_cpu, S_cpu, S_Tctl>>] = 39625

\* the file holding 39625 was stored as 39.625, the zone file holding 45000 as
\* 45.0, and the CLI's 46.0 for another key as 46.0
C15_Witness ==
    \E p \in Procs :
        /\ pc[p] = "export"
        /\ hwmon = HwOk /\ thermal = ThOk /\ cli = CliOk
        /\ hist[p].fs = (<<S_cpu, S_cpu, S_Tctl>> :> 39625)
                          @@ (<<S_thermal, S_acpitz, S_zone0>> :> 45000)
        /\ gauge[<<S_thermal, S_acpitz, S_zone0>>] = 46000

\* C16: when a scrape has done its last step, whatever it discovered, the
\* scrape-duration gauge holds the time this scrape took, which is not
\* negative, and that value is what was sent.
C16_DurationSetEveryScrape ==
    \A p \in Procs :
        pc[p] = "return" =>
            /\ scrapeTime = hist[p].elapsed
            /\ scrapeTime >= 0
            /\ out[p].sentDur /\ out[p].dur = scrapeTime

\* a scrape that found nothing (no trees, CLI failed) overwrote the duration
\* its predecessor had left
C16_Witness ==
    \E p \in Procs :
        /\ pc[p] = "return"
        /\ nReturned = 1
        /\ hist[p].hwErr /\ hist[p].thErr /\ hist[p].cliErr
        /\ gauge = EmptyGauge
        /\ scrapeTime = 1 /\ hist[p].elapsed = 1

\* the place of each step in the order the scrape protocol gives: the duration
\* is computed and published (settime) before the gauge set and the duration
\* are handed off (export, sendtime)
ProtocolRank(at) ==
    CASE at = "idle" -> 0 [] at = "hwmon" -> 1 [] at = "thermal" -> 2
      [] at = "reset" -> 3 [] at = "read" -> 4 [] at = "cli" -> 5
      [] at = "cliset" -> 6 [] at = "warncheck" -> 6 [] at = "warn" -> 7
      [] at = "settime" -> 8 [] at = "export" -> 9 [] at = "sendtime" -> 10
      [] at = "return" -> 11

\* the place of each step when the gauge set is handed off first, the duration
\* computed next and handed off last
HandOffFirstRank(at) ==
    CASE at = "idle" -> 0 [] at = "hwmon" -> 1 [] at = "thermal" -> 2
      [] at = "reset" -> 3 [] at = "read" -> 4 [] at = "cli" -> 5
      [] at = "cliset" -> 6 [] at = "warncheck" -> 6 [] at = "warn" -> 7
      [] at = "export" -> 8 [] at = "settime" -> 9 [] at = "sendtime" -> 10
      [] at = "return" -> 11

\* C17 as claimed: within one scrape the steps run in the order hwmon
\* discovery, thermal discovery, clear, file upserts, CLI call and upserts,
\* computation of the duration, and only then the hand-off of the gauge set and
\* of the duration.
C17_ProtocolOrder ==
    [][\A p \in Procs :
          (pc'[p] # pc[p] /\ pc'[p] # "idle") =>
              ProtocolRank(pc[p]) < ProtocolRank(pc'[p])]_vars

\* C17 as amended: the steps run in the order hwmon discovery, thermal
\* discovery, clear, file upserts, CLI call and upserts, hand-off of the gauge
\* set, computation of the duration, hand-off of the duration; no scrape
\* computes the duration before it has handed off its gauge set, and none
\* returns before it has handed off the duration.
C17_HandOffBeforeDuration ==
    [][\A p \in Procs :
          /\ (pc'[p] # pc[p] /\ pc'[p] # "idle") =>
                 HandOffFirstRank(pc[p]) < HandOffFirstRank(pc'[p])
          /\ pc'[p] \in {"settime", "sendtime", "return"} => out'[p].sentGauge
          /\ pc'[p] \in {"hwmon", "thermal", "reset", "read", "cli", "cliset",
                          "warncheck", "warn", "export"} => ~out'[p].sentGauge
          /\ pc'[p] = "return" <=> out'[p].sentDur
          /\ (pc'[p] = "idle" /\ pc[p] # "idle") => pc[p] = "return"]_vars

\* a scrape that upserted from files and from the CLI has handed off its gauge
\* set and is about to compute the duration
C17_Witness ==
    \E p \in Procs :
        /\ pc[p] = "settime"
        /\ hist[p].fs # EmptyGauge /\ hist[p].fromCli # EmptyGauge
        /\ out[p].sentGauge /\ out[p].gauge = gauge
        /\ ~out[p].sentDur

\* C18: in the read loop, a descriptor whose file is missing, cannot be opened,
\* has no bytes or does not hold a number leaves the gauge set as it was and
\* logs nothing, a descriptor whose file holds a number is upserted with it,
\* and either way the loop goes on to the next descriptor if there is one.
C18_UnreadableSkippedSilently ==
    [][\A p \in Procs :
          (pc[p] = "read" /\ loc'[p].i = loc[p].i + 1) =>
              LET s == loc[p].sensors[loc[p].i]
                  n == Numeric(PathFile(s.path))
              IN  /\ logs' = logs
                  /\ loc[p].i < Len(loc[p].sensors) => pc'[p] = "read"
                  /\ IF n.some
                     THEN /\ <<s.chip, s.name, s.label>> \in DOMAIN gauge'
                          /\ gauge'[<<s.chip, s.name, s.label>>] = n.v
                          /\ \A k \in DOMAIN gauge : k \in DOMAIN gauge'
                     ELSE gauge' = gauge]_vars

\* the first descriptor's file had gone when it was read, it has no entry, and
\* a later descriptor of the same scrape has been upserted; nothing was logged
C18_Witness ==
    \E p \in Procs :
        /\ pc[p] = "export"
        /\ Len(loc[p].sensors) >= 2
        /\ PathFile(loc[p].sensors[1].path).st = "missing"
        /\ <<loc[p].sensors[1].chip, loc[p].sensors[1].name, loc[p].sensors[1].label>>
              \notin DOMAIN gauge
        /\ \E j \in 2..Len(loc[p].sensors) :
              <<loc[p].sensors[j].chip, loc[p].sensors[j].name, loc[p].sensors[j].label>>
                  \in DOMAIN gauge
        /\ logs = NoLogs

----------------------------------------------------------------------------
(* Claims about descriptors that share a key (SpecRepeat)                  *)

\* the files a scrape reads a number from now, each named by its place in the
\* processing order: <<1, chip entry, file>> for hwmon, <<2, zone entry, 0>>
\* for thermal
FileReadsNow ==
    {<<1, x[1], x[2]>> : x \in ReadableInputs} \cup {<<2, e, 0>> : e \in ReadableZones}

\* a is processed before b
Before(a, b) ==
    \/ a[1] < b[1]
    \/ a[1] = b[1] /\ a[2] < b[2]
    \/ a[1] = b[1] /\ a[2] = b[2] /\ a[3] < b[3]

KeyOfRead(t) == IF t[1] = 1 THEN InputKey(<<t[2], t[3]>>) ELSE ZoneKey(t[2])

ValueOfRead(t) ==
    IF t[1] = 1 THEN Numeric(hwmon.entries[t[2]].files[t[3]].file).v
    ELSE Numeric(Lookup(thermal.entries[t[2]].files, S_tempFile)).v

\* C19: once a scrape has merged, a key that several hwmon or thermal
\* descriptors resolve to (and that the CLI did not give) has one entry, whose
\* value is that of the last of them read successfully, hwmon before thermal
\* and in listing order within each; the values are not added up, and the
\* gauge set has as many entries as there are distinct keys.
C19_LastReadWins ==
    \A p \in Procs :
        Merged(p) =>
            LET cliKeys == {<<r.chip, r.name, r.label>> : r \in CliReadingsNow}
            IN  /\ \A t \in FileReadsNow :
                      (/\ KeyOfRead(t) \notin cliKeys
                       /\ \A u \in FileReadsNow :
                             KeyOfRead(u) = KeyOfRead(t) => (u = t \/ Before(u, t)))
                      => gauge[KeyOfRead(t)] = ValueOfRead(t)
                /\ DOMAIN gauge = {KeyOfRead(t) : t \in FileReadsNow} \cup cliKeys

\* temp1 = 39.625 and temp2 = 41.0 of one chip shared a key, which holds 41.0
\* (the non-numeric temp4 after them left it alone), and the zone's 45.0
\* replaced the 43.0 of the hwmon descriptor with the zone's key
C19_Witness ==
    \E p \in Procs :
        /\ pc[p] = "export"
        /\ hwmon = HwDup /\ thermal = ThDup
        /\ Len(loc[p].sensors) = 5
        /\ hist[p].fromCli = EmptyGauge
        /\ gauge = (<<S_thermal, S_thermal, EmptyStr>> :> 41000)
                     @@ (<<S_thermal, S_thermal, S_zone0>> :> 45000)

----------------------------------------------------------------------------
(* Claims about the chip label (SpecDiscover)                              *)

----------------------------------------------------------------------------
(* Claims about readFirstLine (SpecLine)                                   *)

\* s is the line l without the white space at its two ends
TrimmedOf(l, s) ==
    /\ s = << >> \/ (s[1] \notin SpaceChars /\ s[Len(s)] \notin SpaceChars)
    /\ \E a \in 0..Len(l) :
          /\ a + Len(s) <= Len(l)
          /\ \A i \in 1..Len(s) : l[a + i] = s[i]
          /\ \A i \in 1..a : l[i] \in SpaceChars
          /\ \A i \in (a + Len(s) + 1)..Len(l) : l[i] \in SpaceChars

\* the line is empty or white space only
BlankLine(l) == \A i \in 1..Len(l) : l[i] \in SpaceChars

\* the open and the empty-file failures, as the line reader reports them
FailsAsStated ==
    /\ lineFile.st \in {"missing", "denied"} =>
          (lineRead.err /\ lineRead.why = "open" /\ lineRead.s = EmptyStr)
    /\ (lineFile.st = "ok" /\ lineFile.lines = << >>) =>
          (lineRead.err /\ lineRead.why = "empty file" /\ lineRead.s = EmptyStr)

\* C21 as claimed: readFirstLine returns the first line of the file that is not
\* empty, trimmed (the second line when the first is blank); it fails with the
\* open error when the path is missing or unreadable and with the empty-file
\* error when the file holds no line.
C21_FirstNonEmptyLine ==
    lineRead.done =>
        /\ FailsAsStated
        /\ \A i \in 1..Len(lineFile.lines) :
              (/\ lineFile.st = "ok"
               /\ ~BlankLine(lineFile.lines[i])
               /\ \A j \in 1..(i - 1) : BlankLine(lineFile.lines[j]))
              => (~lineRead.err /\ TrimmedOf(lineFile.lines[i], lineRead.s))

\* C21 as amended: readFirstLine returns the first line of the file, trimmed,
\* and when that line is blank it returns the empty string without an error,
\* whatever the lines after it hold; it fails with the open error when the
\* path is missing or unreadable and with the empty-file error when the file
\* holds no line.
C21_FirstLineTrimmed ==
    lineRead.done =>
        /\ FailsAsStated
        /\ (lineFile.st = "ok" /\ lineFile.lines # << >>) =>
              /\ ~lineRead.err /\ lineRead.why = "none"
              /\ TrimmedOf(lineFile.lines[1], lineRead.s)
              /\ BlankLine(lineFile.lines[1]) => lineRead.s = EmptyStr

\* a file whose first line is blank and whose second holds 39625 was read as
\* the empty string, with no error
C21_Witness ==
    /\ lineRead.done
    /\ lineFile = File(<<S_blank, S_39625>>)
    /\ ~lineRead.err
    /\ lineRead.s = EmptyStr

----------------------------------------------------------------------------
(* Claims about the type of the base path's entries (SpecEntries)          *)

\* the tree the discoverer that ran was given
TreeGiven == IF disc.by = "discoverSensors" THEN hwmon ELSE thermal

\* what a directory entry yields: a hwmon chip one descriptor per
\* temp<N>_input file when it can be listed, a zone one when it holds temp
YieldOfDirectory(e) ==
    IF disc.by = "discoverSensors"
    THEN IF e.listable
         THEN Cardinality({j \in 1..Len(e.files) : DigitIndexed(e.files[j].fname)})
         ELSE 0
    ELSE IF \E j \in 1..Len(e.files) : e.files[j].fname = S_tempFile THEN 1 ELSE 0

----------------------------------------------------------------------------
(* Claims about the order the CLI document is walked in (SpecRepeat)       *)

\* the map the readings rs leave when upserted one after the other from i on
RECURSIVE UpsertedFrom(_, _, _)
UpsertedFrom(rs, i, g) ==
    IF i > Len(rs) THEN g
    ELSE UpsertedFrom(rs, i + 1,
                      [k \in DOMAIN g \cup {<<rs[i].chip, rs[i].name, rs[i].label>>} |->
                          IF k = <<rs[i].chip, rs[i].name, rs[i].label>>
                          THEN rs[i].value ELSE g[k]])

\* C23: what the CLI backend has upserted when a scrape has merged, keys and
\* values, is what every order of walking the chips, sections and fields of
\* the same document would have upserted, also when a section holds several
\* temp<N>_input fields with one key.
C23_CliContributionDeterministic ==
    \A p \in Procs :
        (Merged(p) /\ cfg.enableSensorsCli /\ ~hist[p].cliErr) =>
            \A rs \in discoverSensorsCLI(cli).results :
                UpsertedFrom(rs, 1, EmptyGauge) = hist[p].fromCli

====
